---- MODULE Spec2Model ----
(***************************************************************************)
(* The IP packet filter of g_svcmds.c: the fixed array ipfilters with its  *)
(* count numipfilters, the lazy expiry sweep TDM_CheckBans, and the        *)
(* commands addip / removeip / listip / writeip plus the connect-time      *)
(* test SV_FilterPacket.                                                   *)
(***************************************************************************)
EXTENDS Integers, Sequences, FiniteSets, TLC

(***************************************************************************)
(* Bounds of the model.                                                    *)
(***************************************************************************)
\* capacity of the array ipfilters[] (the header's value scaled down)
MAX_IPFILTERS == 2
\* width in bits of `unsigned` (expire, now, the loop index), scaled down
UINT_BITS == 12
\* the value time(NULL) returns when the server starts
T0 == 1000
\* how many times the wall clock advances in one behaviour
MaxTicks == 2

UINT_MOD == 2 ^ UINT_BITS
UINT_MAX == UINT_MOD - 1

\* seconds in a minute: "expiry *= 60" and "remaining / 60"
SECONDS_PER_MINUTE == 60

(***************************************************************************)
(* Addresses.  A text typed by the administrator is a list of number       *)
(* groups, the separator that was used, and an optional /prefix.  A        *)
(* netadr_t is the family, the address groups and mask_bits.               *)
(***************************************************************************)
NoPrefix == -1

Text(sep, a, p) == [sep |-> sep, a |-> a, p |-> p]

T_empty  == Text(".", <<>>, NoPrefix)
T_net24  == Text(".", <<192, 0, 2, 0>>, 24)
T_host5  == Text(".", <<192, 0, 2, 5>>, NoPrefix)
T_bogus  == Text(".", <<192, 0, 2>>, NoPrefix)

\* what an administrator types as <ip-mask>
Texts == {T_empty, T_net24, T_host5, T_bogus}

\* what an administrator types as the duration, in minutes (atoi of a
\* missing argument is 0)
Minutes == {0, 1}

NA_BAD == "bad"
NA_IP  == "v4"
NA_IP6 == "v6"

NetAdr(type, ip, bits) == [type |-> type, ip |-> ip, mask_bits |-> bits]

\* the all-zero netadr_t: memset(&f->addr, 0, sizeof(netadr_t))
ZeroAdr == NetAdr(NA_BAD, <<>>, 0)

Groups(type) == IF type = NA_IP6 THEN 8 ELSE 4
GroupBits(type) == IF type = NA_IP6 THEN 16 ELSE 8
AdrBits(type) == Groups(type) * GroupBits(type)

\* Parse: a bare address implies the full-width prefix; a text that is not
\* an address or address/prefix pair yields no address (the zero netadr_t).
Family(s) == IF s.sep = ":" THEN NA_IP6 ELSE NA_IP

WellFormed(s) ==
    /\ Len(s.a) = Groups(Family(s))
    /\ \A k \in 1..Len(s.a) : s.a[k] \in 0..(2 ^ GroupBits(Family(s)) - 1)
    /\ s.p = NoPrefix \/ s.p \in 0..AdrBits(Family(s))

net_parseIPAddressMask(s) ==
    IF WellFormed(s)
    THEN NetAdr(Family(s), s.a,
                IF s.p = NoPrefix THEN AdrBits(Family(s)) ELSE s.p)
    ELSE ZeroAdr

\* Format: the canonical address/prefixLength rendering
IPMASK(adr) ==
    Text(IF adr.type = NA_IP6 THEN ":" ELSE ".", adr.ip, adr.mask_bits)

\* how many of the top `bits` bits fall in group k (1-based) of the address
BitsInGroup(bits, k, w) ==
    LET rest == bits - (k - 1) * w
    IN  IF rest <= 0 THEN 0 ELSE IF rest >= w THEN w ELSE rest

\* Contains: the top mask_bits bits agree, within the same family only
net_contains(filter, adr) ==
    /\ filter.type # NA_BAD
    /\ filter.type = adr.type
    /\ \A k \in 1..Groups(filter.type) :
          LET w == GroupBits(filter.type)
              n == BitsInGroup(filter.mask_bits, k, w)
          IN  filter.ip[k] \div (2 ^ (w - n)) = adr.ip[k] \div (2 ^ (w - n))

\* the addresses connection attempts come from
A_in24   == NetAdr(NA_IP, <<192, 0, 2, 5>>, 32)
A_out    == NetAdr(NA_IP, <<203, 0, 113, 5>>, 32)
A_v6     == NetAdr(NA_IP6, <<8194, 3512, 0, 0, 0, 0, 45067, 64206>>, 128)
Peers == {A_in24, A_out, A_v6}

(***************************************************************************)
(* The filter list.                                                        *)
(***************************************************************************)
Filter(adr, expire) == [addr |-> adr, expire |-> expire]

\* a zeroed slot: the global array starts zeroed and RemoveIP memsets
ZeroFilter == Filter(ZeroAdr, 0)

Slots == 0..(MAX_IPFILTERS - 1)

VARIABLES
    ipfilters,      \* ipfilter_t ipfilters[MAX_IPFILTERS]
    numipfilters,   \* unsigned numipfilters
    filterban,      \* the cvar filterban->value
    clock,          \* what time(NULL) returns
    ticks,          \* how often the clock has advanced
    last            \* the command that ran last, with what it was given,
                    \* what it saw and what it answered

vars == <<ipfilters, numipfilters, filterban, clock, ticks, last>>

\* the entries in use, first to last
Entries(f, n) == [k \in 1..n |-> f[k - 1]]


(***************************************************************************)
(* Helpers of the commands.                                                *)
(***************************************************************************)
\* StringToFilter: parse, then stamp the expiry; it reports success always
StringToFilter(s, seconds, t) ==
    [ok |-> TRUE,
     f  |-> Filter(net_parseIPAddressMask(s),
                   IF seconds # 0 THEN (t + seconds) % UINT_MOD
                                  ELSE (-1) % UINT_MOD)]

\* RemoveIP that forgets the copy, and so drops the last entry instead
RemoveIP_NoCopy(f, n, i) ==
    [ipfilters    |-> [f EXCEPT ![n - 1] = ZeroFilter],
     numipfilters |-> (n - 1) % UINT_MOD]

\* RemoveIP: copy the last entry over entry i, zero the last one, count--
RemoveIP(f, n, i) ==
    LET moved == [f EXCEPT ![i] = f[n - 1]]
    IN  [ipfilters    |-> [moved EXCEPT ![n - 1] = ZeroFilter],
         numipfilters |-> (n - 1) % UINT_MOD]

\* the test of the sweep with expire compared as a signed number: -1 < now
Expired_Signed(e, now) ==
    e.expire # 0 /\ (IF e.expire = UINT_MAX THEN -1 ELSE e.expire) < now

\* the test of the sweep that also drops an entry in its last second
Expired_OffByOne(e, now) == e.expire # 0 /\ e.expire <= now

\* the test of the sweep: ipfilters[i].expire && ipfilters[i].expire < now
Expired(e, now) == e.expire # 0 /\ e.expire < now

\* a sweep that forgets the i-- and moves on past the entry swapped in
IndexAfterRemove_NoDecrement(i) == (i + 1) % UINT_MOD

\* a sweep that starts over from index 0 after each removal
IndexAfterRemove_Restart(i) == 0

\* the index the loop looks at after a removal at i: i is unsigned, so the
\* i-- at index 0 wraps and the loop's i++ brings it back
IndexAfterRemove(i) == (((i - 1) % UINT_MOD) + 1) % UINT_MOD

\* one call RemoveIP(i), made when the count was n
Call(i, n) == [i |-> i, n |-> n]

\* the for loop of TDM_CheckBans from index i on: the list it leaves, the
\* calls of RemoveIP it makes and how often its body runs
RECURSIVE CheckBansFrom(_, _, _, _)
CheckBansFrom(f, n, i, now) ==
    IF ~(i < n)
    THEN [ipfilters |-> f, numipfilters |-> n, calls |-> <<>>, iters |-> 0]
    ELSE IF Expired(f[i], now)
         THEN LET r == RemoveIP(f, n, i)
                  rest == CheckBansFrom(r.ipfilters, r.numipfilters,
                                        IndexAfterRemove(i), now)
              IN  [rest EXCEPT !.calls = <<Call(i, n)>> \o @, !.iters = @ + 1]
         ELSE LET rest == CheckBansFrom(f, n, (i + 1) % UINT_MOD, now)
              IN  [rest EXCEPT !.iters = @ + 1]

TDM_CheckBans(f, n, now) == CheckBansFrom(f, n, 0, now % UINT_MOD)

\* the scan of SV_FilterPacket: is there an entry that contains the address
FilterMatches(f, n, adr) == \E i \in 0..(n - 1) : net_contains(f[i].addr, adr)

\* SV_FilterPacket that forgets the ! of its last line
FilterPacketResult_NoNot(f, n, adr, ban) == ban

\* (int) filterban->value when an entry matches, (int) !filterban->value
\* otherwise
FilterPacketResult(f, n, adr, ban) ==
    IF FilterMatches(f, n, adr) THEN ban ELSE (IF ban = 0 THEN 1 ELSE 0)

\* removeip that takes any entry covering the address for a match
SameMask_Contains(a, b) == net_contains(b, a)

\* the test of SVCmd_RemoveIP_f: same mask_bits and the same netadr_t bytes
SameMask(a, b) == a.mask_bits = b.mask_bits /\ a = b

\* the indexes the scan of SVCmd_RemoveIP_f stops at (the first match)
RemoveIndex(f, n, adr) ==
    LET hits == {i \in 0..(n - 1) : SameMask(adr, f[i].addr)}
    IN  {i \in hits : \A j \in hits : i <= j}

\* one row of listip: the duration column and the mask column
ListRow(e, now) ==
    LET remaining == (e.expire - now) % UINT_MOD
        minutes   == remaining \div SECONDS_PER_MINUTE
    IN  [permanent |-> (e.expire = (-1) % UINT_MOD),
         minutes   |-> minutes,
         ip        |-> IPMASK(e.addr)]

ListRows(f, n, now) == [k \in 1..n |-> ListRow(f[k - 1], now % UINT_MOD)]

\* writeip that skips nothing
WriteSkips_Nothing(e) == FALSE

\* writeip skips an entry when "if (ipfilters[i].expire) continue;"
WriteSkips(e) == e.expire # 0

\* the "sv addip %s" lines of writeip, in array order
RECURSIVE WriteLines(_, _, _)
WriteLines(f, n, i) ==
    IF ~(i < n) THEN <<>>
    ELSE IF WriteSkips(f[i]) THEN WriteLines(f, n, i + 1)
         ELSE <<IPMASK(f[i].addr)>> \o WriteLines(f, n, i + 1)

(***************************************************************************)
(* State.                                                                  *)
(***************************************************************************)
Last(op, ip, expiry, peer, now, now2, pre, msg, ret, out, run) ==
    [op |-> op, ip |-> ip, expiry |-> expiry, peer |-> peer, now |-> now,
     now2 |-> now2, pre |-> pre, msg |-> msg, ret |-> ret, out |-> out,
     run |-> run]

\* what a command did to the list on its way: the list its sweep left, how
\* often the body of the sweep's loop ran, and the calls of RemoveIP made
\* (those of the sweep, then `more`)
Run(s, more) ==
    [swept |-> [ipfilters |-> s.ipfilters, numipfilters |-> s.numipfilters],
     iters |-> s.iters,
     calls |-> s.calls \o more]

\* a command that returned before its sweep
NoRun ==
    [swept |-> [ipfilters |-> [i \in Slots |-> ZeroFilter], numipfilters |-> 0],
     iters |-> 0,
     calls |-> <<>>]

NoLast == Last("none", T_empty, 0, ZeroAdr, 0, 0, <<>>, "", 0, <<>>, NoRun)

Init ==
    /\ ipfilters = [i \in Slots |-> ZeroFilter]
    /\ numipfilters = 0
    /\ filterban = 1
    /\ clock = T0
    /\ ticks = 0
    /\ last = NoLast

Pre == Entries(ipfilters, numipfilters)

\* addip that lets one entry too many in
ListFull_OffByOne(n) == n > MAX_IPFILTERS

\* "check if list is full": numipfilters == MAX_IPFILTERS
ListFull(n) == n = MAX_IPFILTERS

\* a second reading of time(NULL) in the same command: the same second, or
\* the next one
Later == {clock} \cup (IF ticks < MaxTicks THEN {clock + 1} ELSE {})

(***************************************************************************)
(* The commands.                                                           *)
(***************************************************************************)
\* sv addip <ip-mask> [minutes]
SVCmd_AddIP_f(ip, expiry) ==
    IF Len(ip.a) = 0
    THEN /\ last' = Last("addip", ip, expiry, ZeroAdr, 0, 0, Pre, "Usage", 0, <<>>, NoRun)
         /\ UNCHANGED <<ipfilters, numipfilters, filterban, clock, ticks>>
    ELSE LET s == TDM_CheckBans(ipfilters, numipfilters, clock)
         IN  IF ListFull(s.numipfilters)
             THEN /\ ipfilters' = s.ipfilters
                  /\ numipfilters' = s.numipfilters
                  /\ last' = Last("addip", ip, expiry, ZeroAdr, clock, clock, Pre,
                                  "Full", 0, <<>>, Run(s, <<>>))
                  /\ UNCHANGED <<filterban, clock, ticks>>
             ELSE \E t \in (IF expiry * SECONDS_PER_MINUTE # 0 THEN Later ELSE {clock}) :
                    LET r == StringToFilter(ip, expiry * SECONDS_PER_MINUTE, t)
                    IN  /\ clock' = t
                        /\ ticks' = ticks + (t - clock)
                        /\ UNCHANGED filterban
                        /\ IF ~r.ok
                           THEN /\ ipfilters' = s.ipfilters
                                /\ numipfilters' = s.numipfilters
                                /\ last' = Last("addip", ip, expiry, ZeroAdr, clock, t,
                                                Pre, "BadAddress", 0, <<>>,
                                                Run(s, <<>>))
                           ELSE /\ ipfilters' = [s.ipfilters EXCEPT ![s.numipfilters] = r.f]
                                /\ numipfilters' = s.numipfilters + 1
                                /\ last' = Last("addip", ip, expiry, ZeroAdr, clock, t,
                                                Pre, "Added", 0, <<>>,
                                                Run(s, <<>>))

\* sv removeip <ip-mask>
SVCmd_RemoveIP_f(ip) ==
    IF Len(ip.a) = 0
    THEN /\ last' = Last("removeip", ip, 0, ZeroAdr, 0, 0, Pre, "Usage", 0, <<>>, NoRun)
         /\ UNCHANGED <<ipfilters, numipfilters, filterban, clock, ticks>>
    ELSE LET r == StringToFilter(ip, 0, clock)
             s == TDM_CheckBans(ipfilters, numipfilters, clock)
             at == RemoveIndex(s.ipfilters, s.numipfilters, r.f.addr)
         IN  /\ UNCHANGED <<filterban, clock, ticks>>
             /\ IF ~r.ok
                THEN /\ UNCHANGED <<ipfilters, numipfilters>>
                     /\ last' = Last("removeip", ip, 0, ZeroAdr, 0, 0, Pre,
                                     "BadAddress", 0, <<>>, NoRun)
                ELSE IF at = {}
                THEN /\ ipfilters' = s.ipfilters
                     /\ numipfilters' = s.numipfilters
                     /\ last' = Last("removeip", ip, 0, ZeroAdr, clock, clock, Pre,
                                     "NotFound", 0, <<>>, Run(s, <<>>))
                ELSE \E i \in at :
                       LET d == RemoveIP(s.ipfilters, s.numipfilters, i)
                       IN  /\ ipfilters' = d.ipfilters
                           /\ numipfilters' = d.numipfilters
                           /\ last' = Last("removeip", ip, 0, ZeroAdr, clock, clock,
                                           Pre, "Removed", 0, <<>>,
                                           Run(s, <<Call(i, s.numipfilters)>>))

\* the connect-time test; a true result refuses the connection
SV_FilterPacket(adr) ==
    LET s == TDM_CheckBans(ipfilters, numipfilters, clock)
    IN  /\ ipfilters' = s.ipfilters
        /\ numipfilters' = s.numipfilters
        /\ last' = Last("filter", T_empty, 0, adr, clock, clock, Pre, "",
                        FilterPacketResult(s.ipfilters, s.numipfilters, adr, filterban),
                        <<>>, Run(s, <<>>))
        /\ UNCHANGED <<filterban, clock, ticks>>

\* sv listip
SVCmd_ListIP_f ==
    LET s == TDM_CheckBans(ipfilters, numipfilters, clock)
    IN  \E now \in Later :
           /\ ipfilters' = s.ipfilters
           /\ numipfilters' = s.numipfilters
           /\ clock' = now
           /\ ticks' = ticks + (now - clock)
           /\ last' = Last("listip", T_empty, 0, ZeroAdr, clock, now, Pre, "", 0,
                           ListRows(s.ipfilters, s.numipfilters, now),
                           Run(s, <<>>))
           /\ UNCHANGED filterban

\* sv writeip
SVCmd_WriteIP_f ==
    \E opened \in BOOLEAN :
        IF ~opened
        THEN /\ last' = Last("writeip", T_empty, 0, ZeroAdr, 0, 0, Pre,
                             "CouldntOpen", 0, <<>>, NoRun)
             /\ UNCHANGED <<ipfilters, numipfilters, filterban, clock, ticks>>
        ELSE LET s == TDM_CheckBans(ipfilters, numipfilters, clock)
                 lines == WriteLines(s.ipfilters, s.numipfilters, 0)
             IN  /\ ipfilters' = s.ipfilters
                 /\ numipfilters' = s.numipfilters
                 /\ last' = Last("writeip", T_empty, 0, ZeroAdr, clock, clock, Pre,
                                 "Written", filterban, lines, Run(s, <<>>))
                 /\ UNCHANGED <<filterban, clock, ticks>>

(***************************************************************************)
(* The environment: the wall clock and the filterban cvar.                 *)
(***************************************************************************)
\* seconds that pass between two commands
Deltas == {1, SECONDS_PER_MINUTE}

Tick(d) ==
    /\ ticks < MaxTicks
    /\ clock' = clock + d
    /\ ticks' = ticks + 1
    /\ last' = NoLast
    /\ UNCHANGED <<ipfilters, numipfilters, filterban>>

\* the values the administrator gives the cvar
FilterbanValues == {0, 1}

SetFilterban(v) ==
    /\ v # filterban
    /\ filterban' = v
    /\ last' = NoLast
    /\ UNCHANGED <<ipfilters, numipfilters, clock, ticks>>

Next ==
    \/ \E ip \in Texts, expiry \in Minutes : SVCmd_AddIP_f(ip, expiry)
    \/ \E ip \in Texts : SVCmd_RemoveIP_f(ip)
    \/ \E adr \in Peers : SV_FilterPacket(adr)
    \/ SVCmd_ListIP_f
    \/ SVCmd_WriteIP_f
    \/ \E d \in Deltas : Tick(d)
    \/ \E v \in FilterbanValues : SetFilterban(v)

Spec == Init /\ [][Next]_vars

(***************************************************************************)
(* What the claims speak of.                                               *)
(***************************************************************************)
\* the store as the command left it, and as the command found it
Post == Entries(ipfilters, numipfilters)

\* the command that ran last swept the list at time last.now
Swept == last.now > 0

\* an entry is permanent when it carries the sentinel of StringToFilter
IsPermanent(e) == e.expire = UINT_MAX

\* an entry whose finite expiry lies before `now`
Stale(e, now) == ~IsPermanent(e) /\ e.expire < now

Count(seq, e) == Cardinality({k \in 1..Len(seq) : seq[k] = e})

\* how often e is among the entries of seq that are not stale at `now`
LiveCount(seq, e, now) ==
    Cardinality({k \in 1..Len(seq) : seq[k] = e /\ ~Stale(seq[k], now)})

LiveSize(seq, now) == Cardinality({k \in 1..Len(seq) : ~Stale(seq[k], now)})

Known(a, b) == {a[k] : k \in 1..Len(a)} \cup {b[k] : k \in 1..Len(b)}

\* the store is what the sweep alone leaves of the store the command found
OnlySwept ==
    /\ numipfilters = LiveSize(last.pre, last.now)
    /\ \A e \in Known(last.pre, Post) :
          Count(Post, e) = LiveCount(last.pre, e, last.now)

\* some entry of the store contains the address
Hit(adr) == \E k \in 1..Len(Post) : net_contains(Post[k].addr, adr)

\* C1: Check permits a connection (SV_FilterPacket answers false) exactly
\* when, in deny-mode (filterban set), no stored entry contains the address
\* and, in allow-mode (filterban clear), some stored entry contains it; so in
\* allow-mode an empty store permits nobody.
C1_CheckDecision ==
    last.op = "filter" =>
        /\ (last.ret = 0) <=> (IF filterban # 0 THEN ~Hit(last.peer)
                                                ELSE Hit(last.peer))
        /\ (filterban = 0 /\ numipfilters = 0) => last.ret # 0

C1_Witness ==
    /\ last.op = "filter"
    /\ filterban = 0
    /\ last.peer = A_out
    /\ Hit(A_in24)
    /\ ~Hit(A_out)
    /\ last.ret # 0

\* C2: no command shows an entry whose finite expiry is earlier than the
\* time the command reads: not the entries Check decides on, not the rows
\* of List (against the time List reads for them; stated for the rows of
\* well-formed masks), not the file of Save.
C2_NoStaleObserved ==
    /\ (last.op = "filter" \/ (last.op = "writeip" /\ last.msg = "Written")) =>
          \A k \in 1..Len(Post) : ~Stale(Post[k], last.now)
    /\ last.op = "listip" =>
          /\ Len(last.out) = Len(Post)
          /\ \A k \in 1..Len(Post) :
                WellFormed(last.out[k].ip) => ~Stale(Post[k], last.now2)

\* the mask the text of the last addip / removeip stands for
Asked == net_parseIPAddressMask(last.ip)

\* the last command was a removeip that took an entry with mask e.addr out
TookOut(e) == last.op = "removeip" /\ last.msg = "Removed" /\ e.addr = Asked

\* C3: a temporary entry added at time t for d > 0 minutes expires at
\* t + 60 d; every command run at a time not later than that keeps it (a
\* removeip of its mask aside), the first command run later drops it, and
\* the entries that have not expired by then stay.
C3_TemporaryLifetime ==
    /\ (last.op = "addip" /\ last.msg = "Added" /\ last.expiry > 0) =>
          /\ numipfilters > 0
          /\ Post[numipfilters].expire =
                last.now2 + SECONDS_PER_MINUTE * last.expiry
          /\ ~Stale(Post[numipfilters], last.now2)
    /\ Swept =>
          \A k \in 1..Len(last.pre) :
             LET e == last.pre[k]
             IN  IF Stale(e, last.now)
                 THEN Count(Post, e) = 0
                 ELSE Count(Post, e) >=
                         Count(last.pre, e) - (IF TookOut(e) THEN 1 ELSE 0)

C3_Witness ==
    /\ Swept
    /\ \E k \in 1..Len(last.pre) :
          /\ last.pre[k].expire + 1 = last.now
          /\ Count(Post, last.pre[k]) = 0
    /\ \E k \in 1..Len(last.pre) :
          /\ IsPermanent(last.pre[k])
          /\ Count(Post, last.pre[k]) = 1

\* C4: an entry added with duration 0 carries the permanent sentinel, which
\* no clock value passes; the sweep of no command removes it, and it leaves
\* the store only through a removeip of its exact mask.
C4_PermanentStays ==
    /\ (last.op = "addip" /\ last.msg = "Added" /\ last.expiry = 0) =>
          /\ numipfilters > 0
          /\ IsPermanent(Post[numipfilters])
    /\ \A k \in 1..Len(last.pre) :
          LET e == last.pre[k]
          IN  IsPermanent(e) =>
                 /\ e.expire > clock
                 /\ Count(Post, e) >=
                       Count(last.pre, e) - (IF TookOut(e) THEN 1 ELSE 0)
                 /\ Count(Post, e) < Count(last.pre, e) => TookOut(e)

C4_Witness ==
    /\ Swept
    /\ last.now > T0 + SECONDS_PER_MINUTE
    /\ numipfilters = 1
    /\ Len(last.pre) = 2
    /\ \E k \in 1..2 : IsPermanent(last.pre[k]) /\ last.pre[k] = Post[1]
    /\ \E k \in 1..2 : Stale(last.pre[k], last.now)

\* C5: addip on a store that is full once swept answers "full" and leaves
\* the store as the sweep left it: the same count, the same entries.
C5_FullRejected ==
    (last.op = "addip" /\ Len(last.ip.a) > 0) =>
        /\ (LiveSize(last.pre, last.now) = MAX_IPFILTERS) => last.msg = "Full"
        /\ last.msg = "Full" =>
              /\ LiveSize(last.pre, last.now) = MAX_IPFILTERS
              /\ numipfilters = MAX_IPFILTERS
              /\ OnlySwept

C5_Witness ==
    /\ last.op = "addip"
    /\ last.msg = "Full"
    /\ WellFormed(last.ip)
    /\ Len(last.pre) = MAX_IPFILTERS
    /\ Post = last.pre

\* C6: addip with a text that is no address and no address/prefix pair
\* answers BadAddress and inserts nothing: the store is what the sweep
\* alone leaves.
C6_BadAddressRejected ==
    (last.op = "addip" /\ Len(last.ip.a) > 0 /\ ~WellFormed(last.ip)
                       /\ last.msg # "Full") =>
        /\ last.msg = "BadAddress"
        /\ OnlySwept

\* C7: removeip of a mask that no stored entry has answers NotFound and
\* leaves the store as large as it was (as the sweep alone leaves it).
C7_RemoveNotFound ==
    (last.op = "removeip" /\ Len(last.ip.a) > 0) =>
        /\ (\A k \in 1..Len(last.pre) :
               Stale(last.pre[k], last.now) \/ last.pre[k].addr # Asked)
              => last.msg = "NotFound"
        /\ last.msg = "NotFound" =>
              /\ OnlySwept
              /\ \A k \in 1..Len(Post) : Post[k].addr # Asked

C7_Witness ==
    /\ last.op = "removeip"
    /\ last.msg = "NotFound"
    /\ last.ip = T_host5
    /\ numipfilters > 0
    /\ Post = last.pre
    /\ \E k \in 1..Len(Post) : net_contains(Post[k].addr, Asked)

\* C8: a removeip that succeeds deletes exactly one entry, whose mask has
\* the prefix length and the address bytes of the text; the count drops by
\* one, and every other entry, a duplicate of that mask too, stays in the
\* store and is still matched by Check.
C8_RemoveExactlyOne ==
    (last.op = "removeip" /\ last.msg = "Removed") =>
        /\ numipfilters = LiveSize(last.pre, last.now) - 1
        /\ \E j \in 1..Len(last.pre) :
              LET gone == last.pre[j]
              IN  /\ ~Stale(gone, last.now)
                  /\ gone.addr.mask_bits = Asked.mask_bits
                  /\ gone.addr.type = Asked.type
                  /\ gone.addr.ip = Asked.ip
                  /\ \A e \in Known(last.pre, Post) :
                        Count(Post, e) = LiveCount(last.pre, e, last.now)
                                           - (IF e = gone THEN 1 ELSE 0)
        /\ \A adr \in Peers :
              (\E k \in 1..Len(last.pre) :
                  /\ ~Stale(last.pre[k], last.now)
                  /\ last.pre[k].addr # Asked
                  /\ net_contains(last.pre[k].addr, adr))
                 => FilterMatches(ipfilters, numipfilters, adr)

C8_Witness ==
    /\ last.op = "removeip"
    /\ last.msg = "Removed"
    /\ Len(last.pre) = 2
    /\ last.pre[1].addr = last.pre[2].addr
    /\ numipfilters = 1
    /\ Post[1].addr = Asked
    /\ FilterMatches(ipfilters, numipfilters, A_in24)

\* the permanent entries a replay of the written "sv addip" lines through
\* addip builds from an empty list (capacity aside)
Replayed(lines) ==
    {StringToFilter(lines[k], 0, clock).f : k \in 1..Len(lines)}

\* C9: writeip writes one "sv addip" line for every permanent entry of the
\* store, and replaying the lines through addip on an empty list gives the
\* permanent entries back (stated for a store of well-formed masks).
C9_SaveRoundTrip ==
    (/\ last.op = "writeip"
     /\ last.msg = "Written"
     /\ \A k \in 1..Len(Post) : WellFormed(IPMASK(Post[k].addr))) =>
        /\ Len(last.out) =
              Cardinality({k \in 1..Len(Post) : IsPermanent(Post[k])})
        /\ Replayed(last.out) =
              {Post[k] : k \in {j \in 1..Len(Post) : IsPermanent(Post[j])}}

C11_CountAndIndexInRange ==
    /\ numipfilters \in 0..MAX_IPFILTERS
    /\ last.run.swept.numipfilters \in 0..MAX_IPFILTERS
    /\ \A c \in 1..Len(last.run.calls) :
          /\ last.run.calls[c].n \in 1..MAX_IPFILTERS
          /\ last.run.calls[c].i \in 0..(last.run.calls[c].n - 1)

C11_Witness ==
    /\ last.op = "removeip"
    /\ last.msg = "Removed"
    /\ Len(last.pre) = MAX_IPFILTERS
    /\ Len(last.run.calls) = 2
    /\ last.run.calls[1].i = 0
    /\ numipfilters = MAX_IPFILTERS - 2

\* the list the sweep of the last command left
SweptEntries ==
    Entries(last.run.swept.ipfilters, last.run.swept.numipfilters)

\* C12: one run of the sweep at time now removes every entry whose finite
\* expiry is earlier than now and keeps every other entry, as often as it
\* was there, whatever the arrangement of the list.
C12_SweepExact ==
    Swept =>
        /\ last.run.swept.numipfilters = LiveSize(last.pre, last.now)
        /\ \A e \in Known(last.pre, SweptEntries) :
              Count(SweptEntries, e) = LiveCount(last.pre, e, last.now)
        /\ Len(last.run.calls) >= Len(last.pre) - LiveSize(last.pre, last.now)

\* two expired entries in a row, the first at index 0 and the second
\* swapped into its place
C12_Witness ==
    /\ Swept
    /\ Len(last.pre) = 2
    /\ Stale(last.pre[1], last.now)
    /\ Stale(last.pre[2], last.now)
    /\ last.run.calls = <<Call(0, 2), Call(0, 1)>>
    /\ last.run.swept.numipfilters = 0

\* the sweep run once more, at the same clock value, on the list the sweep
\* of the last command left
SweptAgain ==
    TDM_CheckBans(last.run.swept.ipfilters, last.run.swept.numipfilters,
                  last.now)

\* C13: the sweep is idempotent: a second run at the same clock value
\* removes nothing and changes neither the count nor any entry; a command
\* that finds no expired entry has a sweep that leaves the list as it was.
C13_SweepIdempotent ==
    Swept =>
        /\ SweptAgain.numipfilters = last.run.swept.numipfilters
        /\ SweptAgain.ipfilters = last.run.swept.ipfilters
        /\ SweptAgain.calls = <<>>
        /\ (LiveSize(last.pre, last.now) = Len(last.pre)) =>
              (SweptEntries = last.pre /\ last.run.iters = Len(last.pre))

C13_Witness ==
    /\ Swept
    /\ last.op = "filter"
    /\ Len(last.run.calls) = 1
    /\ numipfilters = 1
    /\ SweptAgain.numipfilters = 1
    /\ SweptAgain.iters = 1

\* the longest duration an entry is added with
LongestMinutes == CHOOSE m \in Minutes : \A x \in Minutes : x <= m

\* C14: every row of listip labels a permanent entry "permanent" and shows
\* a temporary entry with (expire - now) / 60 rounded toward zero, where
\* now is the time listip reads and expire >= now: the unsigned subtraction
\* does not wrap and the minutes shown are never more than the duration
\* the entry was added with (stated for the rows of well-formed masks).
C14_ListMinutes ==
    last.op = "listip" =>
        \A k \in 1..Len(last.out) :
           /\ last.out[k].permanent <=> IsPermanent(Post[k])
           /\ (~IsPermanent(Post[k]) /\ WellFormed(last.out[k].ip)) =>
                 /\ Post[k].expire >= last.now2
                 /\ last.out[k].minutes =
                       (Post[k].expire - last.now2) \div SECONDS_PER_MINUTE
                 /\ last.out[k].minutes <= LongestMinutes

\* how each operation classifies an entry: the sweep never expires it,
\* listip labels it permanent, writeip writes it to the file
SweepKeepsForever(e) == \A t \in 0..UINT_MAX : ~Expired(e, t)
ListLabelsPermanent(e) == ListRow(e, clock % UINT_MOD).permanent
SaveWrites(e) == ~WriteSkips(e)

\* C15: every entry is classified the same way by the sweep, by listip and
\* by writeip, and it is permanent for them exactly when it was added with
\* duration 0 (stated for the entries of well-formed masks).
C15_OneClassification ==
    /\ \A k \in 1..Len(Post) :
          WellFormed(IPMASK(Post[k].addr)) =>
             /\ SweepKeepsForever(Post[k]) <=> ListLabelsPermanent(Post[k])
             /\ ListLabelsPermanent(Post[k]) <=> SaveWrites(Post[k])
    /\ (last.op = "addip" /\ last.msg = "Added" /\ WellFormed(last.ip)) =>
          /\ SweepKeepsForever(Post[numipfilters]) <=> last.expiry = 0
          /\ ListLabelsPermanent(Post[numipfilters]) <=> last.expiry = 0
          /\ SaveWrites(Post[numipfilters]) <=> last.expiry = 0

\* how many calls of RemoveIP the sweep of the last command made
SweepCalls == Len(last.pre) - last.run.swept.numipfilters

\* C16: the loop of the sweep ends for every list and clock value: each
\* run of its body moves the index on or takes one entry out (after a
\* removal, at index 0 too, the index stays where it was), so the body
\* runs no more often than there were entries when the sweep began.
C16_SweepBounded ==
    Swept =>
        /\ last.run.iters <= Len(last.pre)
        /\ SweepCalls \in 0..last.run.iters
        /\ SweepCalls <= Len(last.run.calls)
        /\ \A c \in 1..SweepCalls :
              last.run.calls[c].n = Len(last.pre) - (c - 1)
        /\ \A c \in 1..(SweepCalls - 1) :
              last.run.calls[c + 1].i >= last.run.calls[c].i

\* a removal at index 0, where the unsigned index wraps, after which the
\* entry swapped in is looked at and kept
C16_Witness ==
    /\ Swept
    /\ Len(last.pre) = 2
    /\ last.run.iters = 2
    /\ SweepCalls = 1
    /\ last.run.calls[1] = Call(0, 2)
    /\ last.run.swept.numipfilters = 1

\* the commands that only read the list
ReadingOps == {"filter", "listip", "writeip"}

\* one step of a command: a reading command takes nothing out of the list
\* but entries expired at the time of the call and puts nothing in, and no
\* command writes the filterban cvar
C17_Step ==
    /\ last'.op # "none" => filterban' = filterban
    /\ last'.op \in ReadingOps =>
          /\ numipfilters' <= numipfilters
          /\ \A e \in Known(Pre, Pre') :
                /\ Count(Pre', e) <= Count(Pre, e)
                /\ ~Stale(e, clock) => Count(Pre', e) = Count(Pre, e)

\* C17: Check, List and Save change the store only by removing expired
\* entries: every entry that is permanent or not yet expired at the time
\* of the call is still there afterwards and none is added; no filter
\* operation modifies the mode flag.
C17_ReadersOnlySweep == [][C17_Step]_vars

C17_Witness ==
    /\ last.op \in ReadingOps
    /\ Swept
    /\ Len(last.pre) = 2
    /\ numipfilters = 1
    /\ \E k \in 1..2 : Stale(last.pre[k], last.now)
    /\ ~IsPermanent(Post[1])
    /\ Post[1].expire = last.now

====
